---- MODULE Spec2Model ----
(***************************************************************************)
(* A model of the blossom packaging core: the variable substitution of    *)
(* src/package.rs (replace_vars, Package::parse) and the checksum         *)
(* verifier and archive packager of src/lib.rs (check_hash,               *)
(* create_tarball).                                                        *)
(*                                                                         *)
(* Strings are sequences of one-character strings, so that the regular    *)
(* expression of replace_vars is matched character by character.          *)
(***************************************************************************)
EXTENDS Integers, Sequences, FiniteSets, TLC

VARIABLES
    \* replace_vars called on its own (the unit tests of package.rs)
    haystack, variables, rv_pc, rv_result, rv_again,
    \* Package::parse
    text, cwd, package, vartable, parse_pc, parse_i, parse_outcome,
    \* check_hash
    file, checksum, hash_pc, file_bytes, hash_type, hash, computed_hash,
    hash_result,
    \* create_tarball
    tar_in, tar_pc, archive, written, builder, encoder, tar_log, tar_result

replaceState == <<haystack, variables, rv_pc, rv_result, rv_again>>
parseState == <<text, cwd, package, vartable, parse_pc, parse_i, parse_outcome>>
hashState ==
    <<file, checksum, hash_pc, file_bytes, hash_type, hash, computed_hash,
      hash_result>>
tarState ==
    <<tar_in, tar_pc, archive, written, builder, encoder, tar_log, tar_result>>
vars == <<replaceState, parseState, hashState, tarState>>

----------------------------------------------------------------------------
(* Bounds of the model *)

\* a haystack of the substitution runs is a concatenation of at most
\* MaxParts fragments of HaystackParts
MaxParts == 3

\* a manifest of the parse runs has at most MaxSources sources and at most
\* MaxSteps steps
MaxSources == 1
MaxSteps == 1

\* a file of the checksum runs holds at most MaxFileLen bytes
MaxFileLen == 2

----------------------------------------------------------------------------
(* Strings *)

Min(S) == CHOOSE x \in S : \A y \in S : x <= y

RECURSIVE Flatten(_)
\* the concatenation of a sequence of strings
Flatten(ss) == IF ss = <<>> THEN <<>> ELSE Head(ss) \o Flatten(Tail(ss))

SeqsUpTo(S, n) == UNION { [1..m -> S] : m \in 0..n }

\* the outcome of a call that either returns a String or panics
Returned(s) == [kind |-> "ok", val |-> s]
Panicked == [kind |-> "panic", val |-> <<>>]

----------------------------------------------------------------------------
(* package.rs: VARIABLE_REGEX and replace_vars *)

\* the pattern of lib.rs, %\{([a-zA-Z0-9_]*)\}, in place of that of
\* package.rs: the name may be empty and holds word characters only
VARIABLE_REGEX_lib(h, i) ==
    IF i + 2 <= Len(h) /\ h[i] = "%" /\ h[i + 1] = "{"
    THEN LET stops == {j \in (i + 2)..Len(h) : h[j] \in {"%", "{", "}", "/"}}
         IN  IF stops # {} /\ h[Min(stops)] = "}" THEN Min(stops) ELSE 0
    ELSE 0

\* VARIABLE_REGEX = %\{([^}]+)\} anchored at position i of h: the position of
\* the closing brace of the match that starts at i, or 0 when none starts
\* there.  [^}]+ takes at least one character and stops before the first }.
VARIABLE_REGEX(h, i) ==
    IF i + 3 <= Len(h) /\ h[i] = "%" /\ h[i + 1] = "{" /\ h[i + 2] # "}"
    THEN LET closers == {j \in (i + 3)..Len(h) : h[j] = "}"}
         IN  IF closers = {} THEN 0 ELSE Min(closers)
    ELSE 0

\* Regex::captures_iter: the start of the leftmost match at or after from,
\* or 0 when there is none
NextMatch(h, from) ==
    LET starts == {i \in from..Len(h) : VARIABLE_REGEX(h, i) # 0}
    IN  IF starts = {} THEN 0 ELSE Min(starts)

\* a lookup that substitutes the empty string for an unknown name
LookupOrEmpty(T, name) ==
    IF name \in DOMAIN T THEN Returned(T[name]) ELSE Returned(<<>>)

\* the closure of replace_vars: variables.get(&caps[1]).expect(..)
Lookup(T, name) ==
    IF name \in DOMAIN T THEN Returned(T[name]) ELSE Panicked

RECURSIVE ReplaceAll(_, _, _, _)
\* Regex::replace_all: the text between matches is copied, each match is
\* replaced by the closure's value, and the scan resumes after the match
\* (the replacement itself is never scanned)
ReplaceAll(h, last, T, acc) ==
    LET s == NextMatch(h, last)
    IN  IF s = 0
        THEN Returned(acc \o SubSeq(h, last, Len(h)))
        ELSE LET e == VARIABLE_REGEX(h, s)
                 got == Lookup(T, SubSeq(h, s + 2, e - 1))
             IN  IF got.kind = "panic"
                 THEN Panicked
                 ELSE ReplaceAll(h, e + 1, T,
                                 acc \o SubSeq(h, last, s - 1) \o got.val)

\* Regex::replace in place of replace_all: only the first match is replaced
replace_vars_first(h, T) ==
    LET s == NextMatch(h, 1)
    IN  IF s = 0
        THEN Returned(h)
        ELSE LET e == VARIABLE_REGEX(h, s)
                 got == Lookup(T, SubSeq(h, s + 2, e - 1))
             IN  IF got.kind = "panic"
                 THEN Panicked
                 ELSE Returned(SubSeq(h, 1, s - 1) \o got.val
                               \o SubSeq(h, e + 1, Len(h)))

replace_vars(h, T) == ReplaceAll(h, 1, T, <<>>)

----------------------------------------------------------------------------
(* The inputs of the substitution runs *)

HaystackParts ==
    { <<"%", "{", "a", "}">>, <<"%", "{", "b", "}">>,
      <<"%">>, <<"{">>, <<"}">>, <<"a">> }

RECURSIVE Concatenations(_)
Concatenations(n) ==
    IF n = 0 THEN { <<>> }
    ELSE LET shorter == Concatenations(n - 1)
         IN  shorter \cup { h \o p : h \in shorter, p \in HaystackParts }

Haystacks == Concatenations(MaxParts)

\* the keys a table may hold; the last is a name with placeholder text in it
KeyA == <<"a">>
KeyB == <<"b">>
KeyNested == <<"%", "{", "a">>

ValuesA ==
    { <<>>, <<"a">>, <<"}">>, <<"a", "}">>, <<"%">>, <<"{">>,
      <<"%", "{", "b", "}">> }
ValuesB == { <<"b">> }
ValuesNested == { <<"a">> }

ValuesOf(k) ==
    IF k = KeyA THEN ValuesA ELSE IF k = KeyB THEN ValuesB ELSE ValuesNested

Tables ==
    UNION { { t \in [K -> ValuesA \cup ValuesB] : \A k \in K : t[k] \in ValuesOf(k) }
            : K \in SUBSET {KeyA, KeyB, KeyNested} }

----------------------------------------------------------------------------
(* package.rs: Package::parse *)

S_version == <<"v", "e", "r", "s", "i", "o", "n">>
S_pkgdir == <<"p", "k", "g", "d", "i", "r">>
\* PathBuf::join("package") appends a separator and the component
S_package == <<"/", "p", "a", "c", "k", "a", "g", "e">>

\* let mut variables = HashMap::new(); insert("version", ..); insert("pkgdir", ..)
BuildVariables(version, dir) ==
    [k \in {S_version, S_pkgdir} |->
        IF k = S_version THEN version ELSE dir \o S_package]

\* the substituted url is computed and dropped, the source keeps its text
SubstituteSourceDiscarded(source, T) ==
    LET r == replace_vars(source.url, T)
    IN  IF r.kind = "panic" THEN Panicked ELSE Returned(source)

\* source.url = replace_vars(&source.url, &variables)
SubstituteSource(source, T) ==
    LET r == replace_vars(source.url, T)
    IN  IF r.kind = "panic" THEN Panicked
        ELSE Returned([source EXCEPT !.url = r.val])

\* a match that substitutes Move.path only and leaves Command.command as
\* written
SubstituteStepMoveOnly(step, T) ==
    IF step.variant.tag = "Command"
    THEN Returned(step)
    ELSE LET r == replace_vars(step.variant.path, T)
         IN  IF r.kind = "panic" THEN Panicked
             ELSE Returned([step EXCEPT !.variant.path = r.val])

\* match &mut step.variant { Command {command, ..} => .., Move {path} => .. }
SubstituteStep(step, T) ==
    IF step.variant.tag = "Command"
    THEN LET r == replace_vars(step.variant.command, T)
         IN  IF r.kind = "panic" THEN Panicked
             ELSE Returned([step EXCEPT !.variant.command = r.val])
    ELSE LET r == replace_vars(step.variant.path, T)
         IN  IF r.kind = "panic" THEN Panicked
             ELSE Returned([step EXCEPT !.variant.path = r.val])

NoPackage == <<>>

\* toml_edit::de::from_str(s)?: the text either deserializes into a Package
\* or is rejected (not TOML, a field missing, a license that is no SPDX
\* expression, an unknown runner)
Deserialize ==
    /\ parse_pc = "start"
    /\ IF text.valid
       THEN /\ package' = text.package
            /\ parse_pc' = "current_dir"
            /\ parse_outcome' = "none"
       ELSE /\ package' = NoPackage
            /\ parse_pc' = "done"
            /\ parse_outcome' = "DeserializeError"
    /\ UNCHANGED <<text, cwd, vartable, parse_i, replaceState, hashState, tarState>>

\* let pkgdir = current_dir()?.join("package"); the two inserts, the second
\* with pkgdir.to_str().unwrap()
BuildTable ==
    /\ parse_pc = "current_dir"
    /\ \/ /\ cwd.status = "error"
          /\ package' = NoPackage
          /\ parse_pc' = "done"
          /\ parse_outcome' = "IoError"
          /\ UNCHANGED vartable
       \/ /\ cwd.status = "not_utf8"
          /\ package' = NoPackage
          /\ parse_pc' = "done"
          /\ parse_outcome' = "panic"
          /\ UNCHANGED vartable
       \/ /\ cwd.status = "ok"
          /\ vartable' = BuildVariables(package.info.version, cwd.path)
          /\ parse_pc' = "sources"
          /\ UNCHANGED <<package, parse_outcome>>
    /\ parse_i' = 1
    /\ UNCHANGED <<text, cwd, replaceState, hashState, tarState>>

\* for source in package.sources.iter_mut() { .. }
SourcesLoop ==
    /\ parse_pc = "sources"
    /\ IF parse_i <= Len(package.sources)
       THEN LET r == SubstituteSource(package.sources[parse_i], vartable)
            IN  IF r.kind = "panic"
                THEN /\ package' = NoPackage
                     /\ parse_pc' = "done"
                     /\ parse_outcome' = "panic"
                     /\ UNCHANGED parse_i
                ELSE /\ package' = [package EXCEPT !.sources[parse_i] = r.val]
                     /\ parse_i' = parse_i + 1
                     /\ UNCHANGED <<parse_pc, parse_outcome>>
       ELSE /\ parse_pc' = "steps"
            /\ parse_i' = 1
            /\ UNCHANGED <<package, parse_outcome>>
    /\ UNCHANGED <<text, cwd, vartable, replaceState, hashState, tarState>>

\* for step in package.steps.iter_mut() { .. }
StepsLoop ==
    /\ parse_pc = "steps"
    /\ IF parse_i <= Len(package.steps)
       THEN LET r == SubstituteStep(package.steps[parse_i], vartable)
            IN  IF r.kind = "panic"
                THEN /\ package' = NoPackage
                     /\ parse_pc' = "done"
                     /\ parse_outcome' = "panic"
                     /\ UNCHANGED parse_i
                ELSE /\ package' = [package EXCEPT !.steps[parse_i] = r.val]
                     /\ parse_i' = parse_i + 1
                     /\ UNCHANGED <<parse_pc, parse_outcome>>
       ELSE /\ parse_pc' = "return"
            /\ UNCHANGED <<package, parse_i, parse_outcome>>
    /\ UNCHANGED <<text, cwd, vartable, replaceState, hashState, tarState>>

\* Ok(package)
ReturnPackage ==
    /\ parse_pc = "return"
    /\ parse_pc' = "done"
    /\ parse_outcome' = "Ok"
    /\ UNCHANGED <<text, cwd, package, vartable, parse_i, replaceState, hashState, tarState>>

----------------------------------------------------------------------------
(* The manifests of the parse runs *)

Ph(name) == <<"%", "{">> \o name \o <<"}">>

\* the values of Source.url, Command.command and Move.path
VariableStrings ==
    { <<"x">> \o Ph(S_version) \o <<"/">> \o Ph(S_version),
      Ph(S_pkgdir),
      Ph(<<"n">>),
      <<"%">> \o Ph(S_version) \o <<"{", "x">> \o Ph(S_version) \o <<"}">> }

Versions == { <<"1">>, <<>>, <<"{">>, Ph(S_version) }

Names == { <<"f", "o", "o">>, Ph(S_version) }

S_checksum == <<"s", "h", "a", "2", "5", "6", ":", "0", "0">>

SourcesIn == { [url |-> u, checksum |-> S_checksum] : u \in VariableStrings }

StepsIn ==
    { [name |-> <<"s">>,
       variant |-> [tag |-> "Command", runner |-> "Shell", command |-> c]]
        : c \in VariableStrings }
    \cup
    { [name |-> <<"s">>, variant |-> [tag |-> "Move", path |-> q]]
        : q \in VariableStrings }

Packages ==
    { [info |-> [name |-> nm, version |-> v, description |-> <<"d">>,
                 license |-> "MIT"],
       dependencies |-> [required |-> << <<"l", "i", "b", "c">> >>,
                         optional |-> <<>>, build |-> <<>>],
       sources |-> ss,
       steps |-> st,
       directories |-> [d \in { <<"b", "i", "n">> } |-> <<"/", "b", "i", "n">>]]
        : nm \in Names, v \in Versions,
          ss \in SeqsUpTo(SourcesIn, MaxSources),
          st \in SeqsUpTo(StepsIn, MaxSteps) }

Texts ==
    { [valid |-> TRUE, package |-> p] : p \in Packages }
    \cup { [valid |-> FALSE, package |-> NoPackage] }

WorkingDirs ==
    { [status |-> "ok", path |-> <<"/", "w">>],
      [status |-> "ok", path |-> <<"/", "%", "{", "x", "}">>],
      [status |-> "not_utf8", path |-> <<>>],
      [status |-> "error", path |-> <<>>] }

----------------------------------------------------------------------------
(* lib.rs: check_hash *)

HexDigitsLower ==
    <<"0", "1", "2", "3", "4", "5", "6", "7", "8", "9",
      "a", "b", "c", "d", "e", "f">>
HexDigitsUpper ==
    <<"0", "1", "2", "3", "4", "5", "6", "7", "8", "9",
      "A", "B", "C", "D", "E", "F">>

\* base16ct::upper in place of base16ct::lower
EncodeUpper(bytes) ==
    Flatten([i \in 1..Len(bytes) |->
        <<HexDigitsUpper[(bytes[i] \div 16) + 1], HexDigitsUpper[(bytes[i] % 16) + 1]>>])

\* base16ct::lower::encode_string and blake3's Hash::to_hex: two lowercase
\* hexadecimal digits for each byte, the high nibble first
EncodeLower(bytes) ==
    Flatten([i \in 1..Len(bytes) |->
        <<HexDigitsLower[(bytes[i] \div 16) + 1], HexDigitsLower[(bytes[i] % 16) + 1]>>])

RECURSIVE Mix(_, _, _)
Mix(bytes, acc, mul) ==
    IF bytes = <<>> THEN acc
    ELSE Mix(Tail(bytes), (acc * mul + Head(bytes) + 1) % 256, mul)

\* Sha256Hasher::digest and blake3::hash are the sha2 and blake3 crates; a
\* one-byte digest stands for each here, a different function for each
Sha256_digest(bytes) == << Mix(bytes, 171, 31) >>
blake3_hash(bytes) == << Mix(bytes, 94, 7) >>

S_blake3 == <<"b", "l", "a", "k", "e", "3">>
S_sha256 == <<"s", "h", "a", "2", "5", "6">>

NoSplit == [found |-> FALSE, before |-> <<>>, after |-> <<>>]

\* a split that takes a string with no ':' as a tag with an empty digest
SplitOrWhole(s) ==
    LET colons == {k \in 1..Len(s) : s[k] = ":"}
    IN  IF colons = {}
        THEN [found |-> TRUE, before |-> s, after |-> <<>>]
        ELSE [found |-> TRUE,
              before |-> SubSeq(s, 1, Min(colons) - 1),
              after |-> SubSeq(s, Min(colons) + 1, Len(s))]

\* str::split_once(':'): the text before and after the first ':'
split_once(s) ==
    LET colons == {k \in 1..Len(s) : s[k] = ":"}
    IN  IF colons = {}
        THEN NoSplit
        ELSE [found |-> TRUE,
              before |-> SubSeq(s, 1, Min(colons) - 1),
              after |-> SubSeq(s, Min(colons) + 1, Len(s))]

\* Result<bool>: Ok(b) or Err(e), and the value before the call returns
HashOk(b) == [kind |-> "ok", val |-> b, err |-> ""]
HashErr(e) == [kind |-> "err", val |-> FALSE, err |-> e]
HashNone == [kind |-> "none", val |-> FALSE, err |-> ""]

\* let file = fs::read(path)?
ReadFile ==
    /\ hash_pc = "start"
    /\ IF file.readable
       THEN /\ file_bytes' = file.bytes
            /\ hash_pc' = "split"
            /\ UNCHANGED hash_result
       ELSE /\ hash_result' = HashErr("io::Error")
            /\ hash_pc' = "done"
            /\ UNCHANGED file_bytes
    /\ UNCHANGED <<file, checksum, hash_type, hash, computed_hash,
                   replaceState, parseState, tarState>>

\* hash.split_once(':').ok_or(anyhow!("Invalid checksum format"))?
SplitChecksum ==
    /\ hash_pc = "split"
    /\ LET sp == split_once(checksum)
       IN  IF sp.found
           THEN /\ hash_type' = sp.before
                /\ hash' = sp.after
                /\ hash_pc' = "compute"
                /\ UNCHANGED hash_result
           ELSE /\ hash_result' = HashErr("Invalid checksum format")
                /\ hash_pc' = "done"
                /\ UNCHANGED <<hash_type, hash>>
    /\ UNCHANGED <<file, checksum, file_bytes, computed_hash,
                   replaceState, parseState, tarState>>

\* let computed_hash = match hash_type { "blake3" => .., "sha256" => ..,
\* _ => bail!("Unsupported hash") }
ComputeHash ==
    /\ hash_pc = "compute"
    /\ IF hash_type = S_blake3
       THEN /\ computed_hash' = EncodeLower(blake3_hash(file_bytes))
            /\ hash_pc' = "compare"
            /\ UNCHANGED hash_result
       ELSE IF hash_type = S_sha256
       THEN /\ computed_hash' = EncodeLower(Sha256_digest(file_bytes))
            /\ hash_pc' = "compare"
            /\ UNCHANGED hash_result
       ELSE /\ hash_result' = HashErr("Unsupported hash")
            /\ hash_pc' = "done"
            /\ UNCHANGED computed_hash
    /\ UNCHANGED <<file, checksum, file_bytes, hash_type, hash,
                   replaceState, parseState, tarState>>

\* Ok(hash == computed_hash)
CompareHash ==
    /\ hash_pc = "compare"
    /\ hash_result' = HashOk(hash = computed_hash)
    /\ hash_pc' = "done"
    /\ UNCHANGED <<file, checksum, file_bytes, hash_type, hash, computed_hash,
                   replaceState, parseState, tarState>>

----------------------------------------------------------------------------
(* The files and checksum strings of the checksum runs *)

FileBytes == {0, 255}

Files ==
    { [readable |-> TRUE, bytes |-> b] : b \in SeqsUpTo(FileBytes, MaxFileLen) }
    \cup { [readable |-> FALSE, bytes |-> <<>>] }

Tags ==
    { S_blake3, S_sha256, <<"m", "d", "5">>, <<>>, <<"S", "H", "A", "2", "5", "6">> }

\* the digests of the files, in lowercase and in uppercase, alone and
\* followed by a further ':'-separated field, and two strings that are no
\* digest of any file
Digests ==
    UNION { { Sha256_digest(f.bytes), blake3_hash(f.bytes) } : f \in Files }

Bodies ==
    UNION { { EncodeLower(d), EncodeUpper(d), EncodeLower(d) \o <<":", "0">> }
            : d \in Digests }
    \cup { <<>>, <<"d", "e", "a", "d", "b", "e", "e", "f">> }

Checksums ==
    { t \o <<":">> \o b : t \in Tags, b \in Bodies }
    \cup Tags
    \cup { <<"n", "o", "c", "o", "l", "o", "n">> }

----------------------------------------------------------------------------
(* lib.rs: create_tarball *)

\* format!("{}-{}.peach", package.info.name, package.info.version)
tarball_name(info) ==
    info.name \o <<"-">> \o info.version \o <<".", "p", "e", "a", "c", "h">>

\* the file at tarball_path: the entries that have reached it, whether the
\* end of the archive and the trailer of the compressor have, and whether
\* the handle is closed
NoFile == [exists |-> FALSE, name |-> <<>>, entries |-> 0, complete |-> FALSE,
           open |-> FALSE]

\* the name of an entry of the archive: append_dir_all(".", ..) joins "."
\* and the path relative to the staging directory
EntryName(rel) == <<".">> \o rel

\* the paths the walk of append_dir_all may take next: the staging directory
\* itself first, then any path whose directory has been taken (read_dir
\* gives no order among the entries of one directory)
NextPaths ==
    IF written = <<>>
    THEN { <<>> }
    ELSE { q \in tar_in.staging.paths :
             /\ \A n \in 1..Len(written) : written[n] # EntryName(q)
             /\ \E n \in 1..Len(written) :
                   written[n] = EntryName(SubSeq(q, 1, Len(q) - 1)) }

\* what the compressor may have passed on to the file after a write: any
\* number of the entries written so far, not fewer than before
Flushed(n) == (archive.entries)..n

\* let tarball_path = current_dir()?.join(&tarball_name)
CurrentDir ==
    /\ tar_pc = "start"
    /\ IF tar_in.cwd_ok
       THEN /\ tar_pc' = "create"
            /\ UNCHANGED tar_result
       ELSE /\ tar_pc' = "done"
            /\ tar_result' = "Err"
    /\ UNCHANGED <<tar_in, archive, written, builder, encoder, tar_log,
                   replaceState, parseState, hashState>>

\* let tar_gz = File::create(&tarball_path)?, and the encoder and the
\* builder around it
CreateFile ==
    /\ tar_pc = "create"
    /\ \/ /\ archive' = [exists |-> TRUE, name |-> tarball_name(tar_in.info),
                         entries |-> 0, complete |-> FALSE, open |-> TRUE]
          /\ builder' = "open"
          /\ encoder' = "open"
          /\ tar_pc' = "append"
          /\ UNCHANGED tar_result
       \/ /\ tar_pc' = "done"
          /\ tar_result' = "Err"
          /\ UNCHANGED <<archive, builder, encoder>>
    /\ UNCHANGED <<tar_in, written, tar_log, replaceState, parseState, hashState>>

\* tar.append_dir_all(".", package_path)?: one entry of the walk is written,
\* or the walk is over, or it fails (the staging directory is missing or
\* unreadable, or a write fails) and ? returns the error
AppendDirAll ==
    /\ tar_pc = "append"
    /\ \/ /\ tar_in.staging.exists
          /\ \E q \in NextPaths :
                /\ written' = Append(written, EntryName(q))
                /\ \E n \in Flushed(Len(written) + 1) :
                      archive' = [archive EXCEPT !.entries = n]
          /\ UNCHANGED <<tar_pc, tar_result>>
       \/ /\ tar_in.staging.exists
          /\ written # <<>>
          /\ NextPaths = {}
          /\ tar_pc' = "log"
          /\ UNCHANGED <<written, archive, tar_result>>
       \/ /\ ~ tar_in.staging.exists \/ NextPaths # {}
          /\ tar_pc' = "drop_builder"
          /\ tar_result' = "Err"
          /\ UNCHANGED <<written, archive>>
    /\ UNCHANGED <<tar_in, builder, encoder, tar_log,
                   replaceState, parseState, hashState>>

\* info!("Created package: {}", tarball_name); Ok(())
LogCreated ==
    /\ tar_pc = "log"
    /\ tar_log' = Append(tar_log, <<"Created package", tarball_name(tar_in.info)>>)
    /\ tar_result' = "Ok"
    /\ tar_pc' = "drop_builder"
    /\ UNCHANGED <<tar_in, archive, written, builder, encoder,
                   replaceState, parseState, hashState>>

\* the end of the scope, whether reached by ? or by Ok(()): tar is dropped,
\* and the drop of tar::Builder is `let _ = self.finish()`, which writes the
\* end of the archive to the encoder and discards the Result
DropBuilder ==
    /\ tar_pc = "drop_builder"
    /\ \/ builder' = "finished"
       \/ builder' = "failed"
    /\ \E n \in Flushed(Len(written)) : archive' = [archive EXCEPT !.entries = n]
    /\ tar_pc' = "drop_encoder"
    /\ UNCHANGED <<tar_in, written, encoder, tar_log, tar_result,
                   replaceState, parseState, hashState>>

\* the drop of GzEncoder is `let _ = self.try_finish()`, which writes what
\* is buffered and the trailer to the file and discards the Result
DropEncoder ==
    /\ tar_pc = "drop_encoder"
    /\ \/ /\ encoder' = "finished"
          /\ archive' = [archive EXCEPT !.entries = Len(written),
                                        !.complete = (builder = "finished")]
       \/ /\ encoder' = "failed"
          /\ \E n \in Flushed(Len(written)) :
                archive' = [archive EXCEPT !.entries = n]
    /\ tar_pc' = "drop_file"
    /\ UNCHANGED <<tar_in, written, builder, tar_log, tar_result,
                   replaceState, parseState, hashState>>

\* the drop of File closes the handle; the call returns tar_result
DropFile ==
    /\ tar_pc = "drop_file"
    /\ archive' = [archive EXCEPT !.open = FALSE]
    /\ tar_pc' = "done"
    /\ UNCHANGED <<tar_in, written, builder, encoder, tar_log, tar_result,
                   replaceState, parseState, hashState>>

----------------------------------------------------------------------------
(* The staging directories and manifests of the packaging runs *)

StagingDirs ==
    { [exists |-> FALSE, paths |-> {}],
      [exists |-> TRUE, paths |-> {}],
      [exists |-> TRUE, paths |-> { <<"bin">>, <<"bin", "foo">> }],
      [exists |-> TRUE,
       paths |-> { <<"bin">>, <<"bin", "foo">>, <<"lib">>, <<"lib", "bar.so">> }] }

Infos ==
    { [name |-> <<"f", "o", "o">>, version |-> v]
        : v \in { <<"1", ".", "0">>, <<"2">> } }

TarInputs ==
    { [info |-> i, staging |-> d, cwd_ok |-> c]
        : i \in Infos, d \in StagingDirs, c \in BOOLEAN }

----------------------------------------------------------------------------
(* The substitution runs: replace_vars is called on a haystack and a       *)
(* table, and then once more on what it returned.                          *)

NoResult == [kind |-> "none", val |-> <<>>]

ReplaceIdle ==
    /\ haystack = <<>>
    /\ variables = <<>>
    /\ rv_pc = "idle"
    /\ rv_result = NoResult
    /\ rv_again = NoResult

ParseIdle ==
    /\ text = <<>>
    /\ cwd = <<>>
    /\ package = <<>>
    /\ vartable = <<>>
    /\ parse_pc = "idle"
    /\ parse_i = 0
    /\ parse_outcome = "none"

HashIdle ==
    /\ file = <<>>
    /\ checksum = <<>>
    /\ hash_pc = "idle"
    /\ file_bytes = <<>>
    /\ hash_type = <<>>
    /\ hash = <<>>
    /\ computed_hash = <<>>
    /\ hash_result = HashNone

TarIdle ==
    /\ tar_in = <<>>
    /\ tar_pc = "idle"
    /\ archive = NoFile
    /\ written = <<>>
    /\ builder = "none"
    /\ encoder = "none"
    /\ tar_log = <<>>
    /\ tar_result = "none"

InitReplace ==
    /\ haystack \in Haystacks
    /\ variables \in Tables
    /\ rv_pc = "ready"
    /\ rv_result = NoResult
    /\ rv_again = NoResult
    /\ ParseIdle
    /\ HashIdle
    /\ TarIdle

\* replace_vars(haystack, &variables), as the tests of package.rs call it
CallReplaceVars ==
    /\ rv_pc = "ready"
    /\ rv_result' = replace_vars(haystack, variables)
    /\ rv_pc' = "called"
    /\ UNCHANGED <<haystack, variables, rv_again, parseState, hashState, tarState>>

\* replace_vars on the String the first call returned (none after a panic)
CallReplaceVarsAgain ==
    /\ rv_pc = "called"
    /\ rv_result.kind = "ok"
    /\ rv_again' = replace_vars(rv_result.val, variables)
    /\ rv_pc' = "again"
    /\ UNCHANGED <<haystack, variables, rv_result, parseState, hashState, tarState>>

NextReplace == CallReplaceVars \/ CallReplaceVarsAgain

SpecReplace == InitReplace /\ [][NextReplace]_vars

InitParse ==
    /\ text \in Texts
    /\ cwd \in WorkingDirs
    /\ package = NoPackage
    /\ vartable = <<>>
    /\ parse_pc = "start"
    /\ parse_i = 0
    /\ parse_outcome = "none"
    /\ ReplaceIdle
    /\ HashIdle
    /\ TarIdle

NextParse ==
    Deserialize \/ BuildTable \/ SourcesLoop \/ StepsLoop \/ ReturnPackage

SpecParse == InitParse /\ [][NextParse]_vars

InitHash ==
    /\ file \in Files
    /\ checksum \in Checksums
    /\ hash_pc = "start"
    /\ file_bytes = <<>>
    /\ hash_type = <<>>
    /\ hash = <<>>
    /\ computed_hash = <<>>
    /\ hash_result = HashNone
    /\ ReplaceIdle
    /\ ParseIdle
    /\ TarIdle

NextHash == ReadFile \/ SplitChecksum \/ ComputeHash \/ CompareHash

SpecHash == InitHash /\ [][NextHash]_vars

InitTar ==
    /\ tar_in \in TarInputs
    /\ tar_pc = "start"
    /\ archive = NoFile
    /\ written = <<>>
    /\ builder = "none"
    /\ encoder = "none"
    /\ tar_log = <<>>
    /\ tar_result = "none"
    /\ ReplaceIdle
    /\ ParseIdle
    /\ HashIdle

NextTar ==
    \/ CurrentDir
    \/ CreateFile
    \/ AppendDirAll
    \/ LogCreated
    \/ DropBuilder
    \/ DropEncoder
    \/ DropFile

SpecTar == InitTar /\ [][NextTar]_vars

----------------------------------------------------------------------------
(* The placeholders of a string, stated without the scan of replace_all   *)

\* h[i..j] is %{ + one or more characters other than } + }
IsPlaceholder(h, i, j) ==
    /\ i + 3 <= j
    /\ j <= Len(h)
    /\ h[i] = "%"
    /\ h[i + 1] = "{"
    /\ h[j] = "}"
    /\ \A k \in (i + 2)..(j - 1) : h[k] # "}"

Occurrences(h) ==
    { o \in (1..Len(h)) \X (1..Len(h)) : IsPlaceholder(h, o[1], o[2]) }

\* the occurrences that do not start inside an earlier placeholder
Placeholders(h) ==
    CHOOSE P \in SUBSET Occurrences(h) :
        \A o \in Occurrences(h) :
            o \in P <=> ~ \E q \in P : q[1] < o[1] /\ o[1] <= q[2]

NameOf(h, o) == SubSeq(h, o[1] + 2, o[2] - 1)

AllNamesKnown(h, T) ==
    \A o \in Placeholders(h) : NameOf(h, o) \in DOMAIN T

\* h with each placeholder replaced by the table's value for its name
Substituted(h, T) ==
    LET P == Placeholders(h)
        piece(k) ==
            IF \E o \in P : o[1] = k
            THEN LET o == CHOOSE q \in P : q[1] = k
                 IN  IF NameOf(h, o) \in DOMAIN T
                     THEN T[NameOf(h, o)]
                     ELSE SubSeq(h, o[1], o[2])
            ELSE IF \E o \in P : o[1] < k /\ k <= o[2]
                 THEN <<>>
                 ELSE <<h[k]>>
    IN  Flatten([k \in 1..Len(h) |-> piece(k)])

ContainsPlaceholder(s) == Occurrences(s) # {}

----------------------------------------------------------------------------
(* Claims about replace_vars *)

\* C1: when every placeholder name of the haystack is a key of the table,
\* replace_vars returns the haystack with every placeholder, repeated ones
\* included, replaced by the table's value, and the rest of the text
\* unchanged and in order.
C1_ReplacesEveryPlaceholder ==
    (rv_pc # "ready" /\ AllNamesKnown(haystack, variables))
        => rv_result = Returned(Substituted(haystack, variables))

\* two occurrences of one name and text around them, all replaced
C1_Witness ==
    /\ rv_pc = "called"
    /\ rv_result.kind = "ok"
    /\ \E o, q \in Placeholders(haystack) :
          /\ o # q
          /\ NameOf(haystack, o) = NameOf(haystack, q)
    /\ \E k \in 1..Len(haystack) :
          \A o \in Placeholders(haystack) : k < o[1] \/ k > o[2]
    /\ rv_result.val # haystack

\* C3: when some placeholder of the haystack has a name that is not in the
\* table, replace_vars yields no String at all: the call panics, whether or
\* not other placeholders of the haystack are resolvable.
C3_MissingNameYieldsNoString ==
    (rv_pc # "ready" /\ ~ AllNamesKnown(haystack, variables))
        => (rv_result.kind = "panic" /\ rv_pc = "called")

\* one placeholder resolvable, another missing
C3_Witness ==
    /\ rv_pc = "called"
    /\ rv_result.kind = "panic"
    /\ \E o \in Placeholders(haystack) : NameOf(haystack, o) \in DOMAIN variables
    /\ \E o \in Placeholders(haystack) : NameOf(haystack, o) \notin DOMAIN variables

\* C5, as claimed: for every table, the second call returns what the first
\* call returned.
C5_IdempotentForEveryTable ==
    (rv_pc = "again" /\ AllNamesKnown(haystack, variables))
        => rv_again = rv_result

PlainValues(T) ==
    \A k \in DOMAIN T :
        /\ T[k] # <<>>
        /\ \A n \in 1..Len(T[k]) : T[k][n] \notin {"%", "{"}

\* C5, amended: when every value of the table is non-empty and holds
\* neither % nor {, the second call succeeds and returns what the first call
\* returned, which holds no placeholder.
C5_IdempotentForPlainValues ==
    (rv_pc = "again" /\ AllNamesKnown(haystack, variables) /\ PlainValues(variables))
        => /\ rv_again = rv_result
           /\ rv_again.kind = "ok"
           /\ ~ ContainsPlaceholder(rv_result.val)

C5_Witness ==
    /\ rv_pc = "again"
    /\ PlainValues(variables)
    /\ Placeholders(haystack) # {}
    /\ AllNamesKnown(haystack, variables)
    /\ \E k \in DOMAIN variables : "}" \in {variables[k][n] : n \in 1..Len(variables[k])}
    /\ rv_again = rv_result

----------------------------------------------------------------------------
(* Claims about Package::parse *)

\* the String fields parse substitutes into
SubstitutedFields(p) ==
    { p.sources[i].url : i \in 1..Len(p.sources) }
    \cup { p.steps[i].variant.command :
             i \in {j \in 1..Len(p.steps) : p.steps[j].variant.tag = "Command"} }
    \cup { p.steps[i].variant.path :
             i \in {j \in 1..Len(p.steps) : p.steps[j].variant.tag = "Move"} }

\* every String field of a Package
StringFields(p) ==
    SubstitutedFields(p)
    \cup { p.info.name, p.info.version, p.info.description }
    \cup { p.dependencies.required[i] : i \in 1..Len(p.dependencies.required) }
    \cup { p.dependencies.optional[i] : i \in 1..Len(p.dependencies.optional) }
    \cup { p.dependencies.build[i] : i \in 1..Len(p.dependencies.build) }
    \cup { p.sources[i].checksum : i \in 1..Len(p.sources) }
    \cup { p.steps[i].name : i \in 1..Len(p.steps) }
    \cup { p.directories[d] : d \in DOMAIN p.directories }

\* the table of the manifest: its own version and the staging directory
TableOfText ==
    [k \in {S_version, S_pkgdir} |->
        IF k = S_version THEN text.package.info.version
        ELSE cwd.path \o <<"/", "p", "a", "c", "k", "a", "g", "e">>]

\* a variable-bearing field of the text names a variable the table lacks
TextNamesUnknownVariable ==
    /\ text.valid
    /\ \E f \in SubstitutedFields(text.package) :
          \E o \in Placeholders(f) : NameOf(f, o) \notin {S_version, S_pkgdir}

\* C2: when a Source.url, Command.command or Move.path names a variable that
\* is not in the table, Package::parse ends by returning a VariableError to
\* its caller: it neither panics nor returns a Manifest.
C2_UnknownVariableIsReturnedError ==
    (parse_pc = "done" /\ cwd.status = "ok" /\ TextNamesUnknownVariable)
        => parse_outcome = "VariableError"

\* C4, as claimed: no String field of a returned Manifest holds a
\* placeholder, whatever info.version is.
C4_NoFieldHoldsPlaceholder ==
    parse_outcome = "Ok"
        => \A f \in StringFields(package) : ~ ContainsPlaceholder(f)

PlainString(s) ==
    /\ s # <<>>
    /\ \A n \in 1..Len(s) : s[n] \notin {"%", "{"}

\* C4, amended: when info.version is non-empty and neither it nor the path
\* of the working directory holds % or {, no Source.url, Command.command or
\* Move.path of a returned Manifest holds a placeholder (the other String
\* fields are returned as the text has them).
C4_NoSubstitutedFieldHoldsPlaceholder ==
    (parse_outcome = "Ok"
        /\ PlainString(text.package.info.version) /\ PlainString(cwd.path))
        => /\ \A f \in SubstitutedFields(package) : ~ ContainsPlaceholder(f)
           /\ package.info = text.package.info
           /\ package.dependencies = text.package.dependencies
           /\ package.directories = text.package.directories

C4_Witness ==
    /\ parse_outcome = "Ok"
    /\ PlainString(text.package.info.version)
    /\ PlainString(cwd.path)
    /\ \A i \in 1..Len(text.package.sources) :
          ContainsPlaceholder(text.package.sources[i].url)
    /\ Len(package.sources) = MaxSources
    /\ Len(package.steps) = MaxSteps
    /\ \A f \in SubstitutedFields(package) : ~ ContainsPlaceholder(f)

----------------------------------------------------------------------------
(* Claims about check_hash *)

HasColon(s) == \E k \in 1..Len(s) : s[k] = ":"

FirstColon(s) ==
    CHOOSE k \in 1..Len(s) : s[k] = ":" /\ \A j \in 1..(k - 1) : s[j] # ":"

TagOf(s) == SubSeq(s, 1, FirstColon(s) - 1)
AfterFirstColon(s) == SubSeq(s, FirstColon(s) + 1, Len(s))

DigitValue(c) ==
    CASE c = "0" -> 0 [] c = "1" -> 1 [] c = "2" -> 2 [] c = "3" -> 3
      [] c = "4" -> 4 [] c = "5" -> 5 [] c = "6" -> 6 [] c = "7" -> 7
      [] c = "8" -> 8 [] c = "9" -> 9 [] c = "a" -> 10 [] c = "b" -> 11
      [] c = "c" -> 12 [] c = "d" -> 13 [] c = "e" -> 14 [] c = "f" -> 15
      [] OTHER -> -1

\* s is the lowercase hexadecimal text of bytes, character for character
IsLowerHexOf(s, bytes) ==
    /\ Len(s) = 2 * Len(bytes)
    /\ \A i \in 1..Len(bytes) :
          /\ DigitValue(s[2 * i - 1]) >= 0
          /\ DigitValue(s[2 * i]) >= 0
          /\ 16 * DigitValue(s[2 * i - 1]) + DigitValue(s[2 * i]) = bytes[i]

DigestOf(tag, bytes) ==
    IF tag = <<"b", "l", "a", "k", "e", "3">>
    THEN blake3_hash(bytes)
    ELSE Sha256_digest(bytes)

Supported == { <<"b", "l", "a", "k", "e", "3">>, <<"s", "h", "a", "2", "5", "6">> }

\* C6: for a readable file and a checksum whose text before the first ':'
\* is blake3 or sha256, check_hash returns true exactly when the whole text
\* after the first ':' is the lowercase hexadecimal digest of the file, and
\* false otherwise (an uppercase digest, a digest followed by more text).
C6_TrueExactlyOnLowercaseDigest ==
    (hash_pc = "done" /\ file.readable /\ HasColon(checksum)
        /\ TagOf(checksum) \in Supported)
        => hash_result
             = HashOk(IsLowerHexOf(AfterFirstColon(checksum),
                                   DigestOf(TagOf(checksum), file.bytes)))

\* a sha256 checksum of a non-empty file, with a letter in its digest, verified
C6_Witness ==
    /\ hash_pc = "done"
    /\ hash_result = HashOk(TRUE)
    /\ file.bytes # <<>>
    /\ hash_type = <<"s", "h", "a", "2", "5", "6">>
    /\ \E n \in 1..Len(hash) : DigitValue(hash[n]) >= 10

\* C7: check_hash returns no boolean for a bad input: an I/O error when the
\* file cannot be read, else the format error when the checksum holds no
\* ':', else the unsupported-algorithm error when the text before the first
\* ':' is neither blake3 nor sha256 (the empty tag included).
C7_BadInputIsAnError ==
    hash_pc = "done"
        => /\ ~ file.readable => hash_result = HashErr("io::Error")
           /\ (file.readable /\ ~ HasColon(checksum))
                 => hash_result = HashErr("Invalid checksum format")
           /\ (file.readable /\ HasColon(checksum)
                 /\ TagOf(checksum) \notin Supported)
                 => hash_result = HashErr("Unsupported hash")

\* the three errors, each reached: here the checksum with no ':'
C7_Witness ==
    /\ hash_pc = "done"
    /\ file.readable
    /\ ~ HasColon(checksum)
    /\ checksum # <<>>
    /\ hash_result = HashErr("Invalid checksum format")

----------------------------------------------------------------------------
(* Claims about create_tarball *)

Returned_Ok == tar_pc = "done" /\ tar_result = "Ok"

Finalized ==
    /\ builder = "finished"
    /\ encoder = "finished"
    /\ ~ archive.open

\* C8: create_tarball reports success (logs 'Created package', returns Ok)
\* only after the archive writer and the compressor have both been
\* finalized without error and the file closed; on every exit path both
\* streams are flushed and closed before the call returns; and a failed
\* write or finalization is returned to the caller.
C8_SuccessOnlyAfterFinalization ==
    /\ (tar_log # <<>> \/ Returned_Ok) => Finalized
    /\ (tar_pc = "done" /\ archive.exists)
          => (~ archive.open /\ archive.entries = Len(written))
    /\ (tar_pc = "done" /\ (builder = "failed" \/ encoder = "failed"))
          => tar_result = "Err"

\* the entries that can be read back from the file
EntriesOnDisk == { written[n] : n \in 1..archive.entries }

\* the paths under the staging directory, relative to it, and the directory
\* itself as the root of the archive
EntriesOfStaging ==
    { <<".">> \o q : q \in tar_in.staging.paths \cup { <<>> } }

\* C9: a successful create_tarball has written one file named
\* <info.name>-<info.version>.<ext> whose entries are exactly the paths
\* under the staging directory, each at its relative path; with no staging
\* directory the call fails.
C9_ArchiveHoldsStagingTree ==
    /\ Returned_Ok
          => LET base == tar_in.info.name \o <<"-">> \o tar_in.info.version \o <<".">>
             IN  /\ archive.exists
                 /\ Len(archive.name) > Len(base)
                 /\ SubSeq(archive.name, 1, Len(base)) = base
                 /\ archive.complete
                 /\ EntriesOnDisk = EntriesOfStaging
    /\ (tar_pc = "done" /\ ~ tar_in.staging.exists) => tar_result = "Err"

====
